---------------------------- MODULE Spec2Model ----------------------------
(***************************************************************************)
(* A model of simple_text.h (bitmap-font text rendering with SDL2) and of  *)
(* the frame loop of its sample program.                                   *)
(*                                                                         *)
(* A string is a sequence of bytes 0..255.  A uint32_t is a tuple of four  *)
(* byte lanes, most significant first (TLC's integers are 32-bit signed).  *)
(* Time is counted in units of 0.05 s.  The cached surface of a            *)
(* CombinedTexture is the set of glyphs composited onto it.                *)
(***************************************************************************)
EXTENDS Integers, Sequences, FiniteSets, TLC

\* ------------------------------------------------------------------ bounds

\* Longest input text, in characters of Alphabet.
MaxLen == 3
\* Frames of the sample program's loop that are explored.
MaxTicks == 11
MaxChars == 4
MaxTimer == 6

\* ------------------------------------------------------- bytes and uint32_t

\* Bit i (0 = least significant) of a
Bit(a, i) == (a \div (2 ^ i)) % 2

\* The bitwise operators on 4-bit values, as tables
AndNibble ==
    [a \in 0..15 |-> [b \in 0..15 |->
        8 * (Bit(a, 3) * Bit(b, 3)) + 4 * (Bit(a, 2) * Bit(b, 2))
        + 2 * (Bit(a, 1) * Bit(b, 1)) + (Bit(a, 0) * Bit(b, 0))]]

OrNibble == [a \in 0..15 |-> [b \in 0..15 |-> a + b - AndNibble[a][b]]]

XorNibble == [a \in 0..15 |-> [b \in 0..15 |-> a + b - 2 * AndNibble[a][b]]]

\* a & b on bytes
And8(a, b) == 16 * AndNibble[a \div 16][b \div 16] + AndNibble[a % 16][b % 16]

\* a | b on bytes
Or8(a, b) == 16 * OrNibble[a \div 16][b \div 16] + OrNibble[a % 16][b % 16]

\* a ^ b on bytes
Xor8(a, b) == 16 * XorNibble[a \div 16][b \div 16] + XorNibble[a % 16][b % 16]

Zero32 == <<0, 0, 0, 0>>

And32(v, w) == [k \in 1..4 |-> And8(v[k], w[k])]

Or32(v, w) == [k \in 1..4 |-> Or8(v[k], w[k])]

Xor32(v, w) == [k \in 1..4 |-> Xor8(v[k], w[k])]

\* The int a (signed) char promotes to, as 32 bits: bytes 0x80..0xFF are negative.
CharToInt(c) == IF c >= 128 THEN <<255, 255, 255, c>> ELSE <<0, 0, 0, c>>

\* v << (8 * lanes)
Shl32(v, lanes) == [k \in 1..4 |-> IF k + lanes <= 4 THEN v[k + lanes] ELSE 0]

\* ------------------------------------------------------ Code-Point Decoder

is_utf8_start(c) ==
    \/ And8(c, 224) = 192
    \/ And8(c, 240) = 224
    \/ And8(c, 248) = 240

\* The continuation test with 0x40 for 0x80
is_utf_contTypo(c) == And8(c, 192) = 64

is_utf_cont(c) == And8(c, 192) = 128

\* The mask `num` is and-ed with for the value of current_offset
ContinuationMask(current_offset) ==
    IF current_offset = 0 THEN <<255, 0, 0, 255>>
    ELSE IF current_offset = 1 THEN <<255, 0, 255, 255>>
    ELSE <<255, 255, 255, 255>>

\* temp_char after the three `if (current_offset == k)` of a continuation
\* byte: num = text[i] << (current_offset * 8) is or-ed in, masked, when
\* current_offset is 0, 1 or 2, and temp_char is left alone otherwise
OrMasked(temp_char, byte, current_offset) ==
    IF current_offset \in 0..2
    THEN Or32(temp_char, And32(Shl32(byte, current_offset),
                               ContinuationMask(current_offset)))
    ELSE temp_char

\* The same pushing after every continuation byte, without the look-ahead
ContinuationAlwaysPush(d, temp_char, last) ==
    [d EXCEPT !.temp_char = Xor32(temp_char, d.mask),
              !.current_offset = (@ + 255) % 256,
              !.converted = Append(@, Xor32(temp_char, d.mask))]

\* The rest of a continuation byte's iteration: current_offset--, and the
\* push of temp_char ^ mask when the byte is the last of its character
Continuation(d, temp_char, last) ==
    IF last
    THEN [d EXCEPT !.temp_char = Xor32(temp_char, d.mask),
                   !.current_offset = (@ + 255) % 256,
                   !.converted = Append(@, Xor32(temp_char, d.mask))]
    ELSE [d EXCEPT !.temp_char = temp_char,
                   !.current_offset = (@ + 255) % 256]

\* One iteration of the loop of get_utf8_char_vector on text[i]; d is the
\* loop's state: converted, temp_char, current_offset (uint8_t) and mask.
DecodeStep(d, text, i) ==
    LET c == text[i] IN
    IF is_utf8_start(c) THEN
        IF And8(c, 224) = 192 THEN
            [d EXCEPT !.temp_char = Or32(Zero32, Shl32(CharToInt(c), 1)),
                      !.current_offset = 0,
                      !.mask = <<255, 255, 0, 0>>]
        ELSE IF And8(c, 240) = 224 THEN
            [d EXCEPT !.temp_char = Or32(Zero32, Shl32(CharToInt(c), 2)),
                      !.current_offset = 1,
                      !.mask = <<255, 0, 0, 0>>]
        ELSE
            [d EXCEPT !.temp_char = Or32(Zero32, Shl32(CharToInt(c), 3)),
                      !.current_offset = 2,
                      !.mask = Zero32]
    ELSE IF is_utf_cont(c) THEN
        Continuation(d, OrMasked(d.temp_char, CharToInt(c), d.current_offset),
                     \/ (i + 1 <= Len(text) /\ ~is_utf_cont(text[i + 1]))
                     \/ i = Len(text))
    ELSE
        [d EXCEPT !.converted = Append(d.converted, CharToInt(c))]

\* The sequence of code points of a byte string: the loop's state after
\* each byte, from the initial one.  The texts explored are well-formed
\* UTF-8 without NUL, so mask is always set before it is read.
get_utf8_char_vector(text) ==
    LET after[i \in 0..Len(text)] ==
            IF i = 0
            THEN [converted |-> <<>>, temp_char |-> Zero32,
                  current_offset |-> 0, mask |-> Zero32]
            ELSE DecodeStep(after[i - 1], text, i)
    IN  after[Len(text)].converted

\* ------------------------------------------------------------ Glyph Index

\* A part of atlas_characters of the sample program: "!aé"
atlas_characters == <<33, 97, 195, 169>>

\* get_utf8_char_vector of each atlas string in use, evaluated once
DecodedAtlas == [atlas \in {atlas_characters} |-> get_utf8_char_vector(atlas)]

\* utf8_atlas of get_char_index
Utf8Atlas(atlas) ==
    IF atlas = atlas_characters THEN DecodedAtlas[atlas]
    ELSE get_utf8_char_vector(atlas)

\* The loop without its `return i`: the last match wins
RECURSIVE ScanAtlasLast(_, _, _)
ScanAtlasLast(utf8_atlas, character, i) ==
    IF i > Len(utf8_atlas) THEN -1
    ELSE LET later == ScanAtlasLast(utf8_atlas, character, i + 1)
         IN  IF later # -1 THEN later
             ELSE IF utf8_atlas[i] = character THEN i - 1
             ELSE -1

RECURSIVE ScanAtlas(_, _, _)
ScanAtlas(utf8_atlas, character, i) ==
    IF i > Len(utf8_atlas) THEN -1
    ELSE IF utf8_atlas[i] = character THEN i - 1
    ELSE ScanAtlas(utf8_atlas, character, i + 1)

\* 0-based position of the code point in the atlas alphabet, or -1
get_char_index(character, atlas) ==
    ScanAtlas(Utf8Atlas(atlas), character, 1)

\* ----------------------------------------------------- Line Layout Engine

NewLine == 10

Space == 32

\* isspace() in the "C" locale, which operator>> skips
IsSpace(c) == c \in 9..13 \/ c = Space

remove_new_lines(input_string) == SelectSeq(input_string, LAMBDA c : c # NewLine)

\* Position of the first byte of s at or after i that is c, or Len(s) + 1
RECURSIVE FindByte(_, _, _)
FindByte(s, i, c) ==
    IF i > Len(s) \/ s[i] = c THEN i ELSE FindByte(s, i + 1, c)

\* Position of the first byte of s at or after i that is not whitespace
RECURSIVE SkipSpaces(_, _)
SkipSpaces(s, i) ==
    IF i > Len(s) \/ ~IsSpace(s[i]) THEN i ELSE SkipSpaces(s, i + 1)

\* Position of the first byte of s at or after i that is whitespace
RECURSIVE SkipWord(_, _)
SkipWord(s, i) ==
    IF i > Len(s) \/ IsSpace(s[i]) THEN i ELSE SkipWord(s, i + 1)

\* std::getline until it fails: the last line needs no terminator, and an
\* input that ends with the delimiter yields no empty last line.
RECURSIVE GetLines(_)
GetLines(s) ==
    IF s = <<>> THEN <<>>
    ELSE LET k == FindByte(s, 1, NewLine)
         IN  <<SubSeq(s, 1, k - 1)>> \o GetLines(SubSeq(s, k + 1, Len(s)))

split_string_by_newline(input_string) ==
    LET lines == GetLines(input_string)
    IN  [k \in 1..Len(lines) |-> remove_new_lines(lines[k])]

\* The words that repeated `iss >> word` extracts: maximal runs of
\* non-whitespace bytes.
RECURSIVE Words(_)
Words(s) ==
    LET b == SkipSpaces(s, 1)
        e == SkipWord(s, b)
    IN  IF b > Len(s) THEN <<>>
        ELSE <<SubSeq(s, b, e - 1)>> \o Words(SubSeq(s, e, Len(s)))

\* size - (size * h_offset / 100), the horizontal step between glyphs
RealOffset(size, h_offset) == size - ((size * h_offset) \div 100)

\* The fit test without the term for the joining space
FitsOnLineNoSpace(lastElement, word, real_offset, max_length) ==
    (Len(lastElement) * real_offset) + (Len(word) * real_offset) <= max_length

\* The test of split_text_by_size that keeps word on the last line.  It is
\* evaluated in size_t; all operands explored are non-negative and small,
\* so nothing wraps.
FitsOnLine(lastElement, word, real_offset, max_length) ==
    (Len(lastElement) * real_offset) + (Len(word) * real_offset) + real_offset
        <= max_length

\* The loop body with `lastElement += word`: the joining space is left out
PlaceWordNoSpace(result, word, real_offset, max_length) ==
    IF result = <<>> THEN <<word>>
    ELSE LET lastElement == result[Len(result)]
         IN  IF FitsOnLine(lastElement, word, real_offset, max_length)
             THEN [result EXCEPT ![Len(result)] = lastElement \o word]
             ELSE Append(result, word)

\* The body of the while loop of split_text_by_size for one word
PlaceWord(result, word, real_offset, max_length) ==
    IF result = <<>> THEN <<word>>
    ELSE LET lastElement == result[Len(result)]
         IN  IF FitsOnLine(lastElement, word, real_offset, max_length)
             THEN [result EXCEPT ![Len(result)] = lastElement \o <<Space>> \o word]
             ELSE Append(result, word)

RECURSIVE PlaceWords(_, _, _, _)
PlaceWords(result, words, real_offset, max_length) ==
    IF words = <<>> THEN result
    ELSE PlaceWords(PlaceWord(result, Head(words), real_offset, max_length),
                    Tail(words), real_offset, max_length)

split_text_by_size(text, size, h_offset, max_length) ==
    PlaceWords(<<>>, Words(text), RealOffset(size, h_offset), max_length)

RECURSIVE WrapAll(_, _, _, _)
WrapAll(temp, size, h_offset, max_length) ==
    IF temp = <<>> THEN <<>>
    ELSE split_text_by_size(Head(temp), size, h_offset, max_length)
         \o WrapAll(Tail(temp), size, h_offset, max_length)

get_all_lines(text, size, h_offset, max_length) ==
    WrapAll(split_string_by_newline(text), size, h_offset, max_length)

\* The running total without the `+ 1` per line
RECURSIVE CurrentLineFromNoSeparator(_, _, _, _)
CurrentLineFromNoSeparator(lines, current_char, i, total_chars) ==
    IF i > Len(lines) THEN -1
    ELSE LET total == total_chars + Len(get_utf8_char_vector(lines[i]))
         IN  IF total > current_char THEN i - 1
             ELSE CurrentLineFromNoSeparator(lines, current_char, i + 1, total)

\* The loop running from the last line to the first
RECURSIVE CurrentLineFromBackwards(_, _, _, _)
CurrentLineFromBackwards(lines, current_char, i, total_chars) ==
    IF i > Len(lines) THEN -1
    ELSE LET total == total_chars + Len(get_utf8_char_vector(lines[Len(lines) + 1 - i])) + 1
         IN  IF total > current_char THEN Len(lines) - i
             ELSE CurrentLineFromBackwards(lines, current_char, i + 1, total)

RECURSIVE CurrentLineFrom(_, _, _, _)
CurrentLineFrom(lines, current_char, i, total_chars) ==
    IF i > Len(lines) THEN -1
    ELSE LET total == total_chars + Len(get_utf8_char_vector(lines[i])) + 1
         IN  IF total > current_char THEN i - 1
             ELSE CurrentLineFrom(lines, current_char, i + 1, total)

\* 0-based index of the line the running total assigns current_char to, or -1
get_current_line(lines, current_char) == CurrentLineFrom(lines, current_char, 1, 0)

\* ------------------------------------------------------------ Render Cache

\* A glyph drawn at (x, y)
Glyph(c, x, y) == [c |-> c, x |-> x, y |-> y]

\* The code point of ' '
SpaceChar == CharToInt(Space)

\* The step `size - (h_offset * size / 100)` the draw loops add to current_x
Advance(size, h_offset) == size - ((h_offset * size) \div 100)

\* The effect of a draw call on a render cache: the CombinedTexture (finished,
\* texture allocated or null), the glyphs on its surface, and what the call
\* did: glyphs composited onto the cache, glyphs drawn straight to the
\* renderer, and copies of the cache to the output.
Effect(target, surface, composited, direct, copies) ==
    [target |-> target, surface |-> surface, composited |-> composited,
     direct |-> direct, copies |-> copies]

\* `if (target && target->texture == nullptr)`: a new, cleared texture
EnsureTexture(hasTarget, target, surface) ==
    IF hasTarget /\ ~target.texture
    THEN [target |-> [target EXCEPT !.texture = TRUE], surface |-> {}]
    ELSE [target |-> target, surface |-> surface]

\* The guard left out: a finished cache is drawn again like any other
FinishedGuardMissing(hasTarget, target) == FALSE

\* `if (target && target->finished)`: the cache is only copied to the output
FinishedGuard(hasTarget, target) == hasTarget /\ target.finished

\* The same with current_x advanced for a code point without glyph too
DrawCharAlwaysAdvances(a, c, atlas, y, size, h_offset, hasTarget) ==
    IF c = SpaceChar THEN
        [a EXCEPT !.current_x = @ + Advance(size, h_offset),
                  !.copies = IF hasTarget THEN @ + 1 ELSE @]
    ELSE IF get_char_index(c, atlas) # -1 THEN
        IF hasTarget
        THEN [a EXCEPT !.current_x = @ + Advance(size, h_offset),
                       !.surface = @ \cup {Glyph(c, a.current_x, y)},
                       !.composited = Append(@, Glyph(c, a.current_x, y)),
                       !.copies = @ + 1]
        ELSE [a EXCEPT !.current_x = @ + Advance(size, h_offset),
                       !.direct = Append(@, Glyph(c, a.current_x, y))]
    ELSE
        [a EXCEPT !.current_x = @ + Advance(size, h_offset),
                  !.copies = IF hasTarget THEN @ + 1 ELSE @]

\* One iteration of `for (auto c : utf8_text)`; a carries current_x and the
\* effect so far.
DrawChar(a, c, atlas, y, size, h_offset, hasTarget) ==
    IF c = SpaceChar THEN
        [a EXCEPT !.current_x = @ + Advance(size, h_offset),
                  !.copies = IF hasTarget THEN @ + 1 ELSE @]
    ELSE IF get_char_index(c, atlas) # -1 THEN
        IF hasTarget
        THEN [a EXCEPT !.current_x = @ + Advance(size, h_offset),
                       !.surface = @ \cup {Glyph(c, a.current_x, y)},
                       !.composited = Append(@, Glyph(c, a.current_x, y)),
                       !.copies = @ + 1]
        ELSE [a EXCEPT !.current_x = @ + Advance(size, h_offset),
                       !.direct = Append(@, Glyph(c, a.current_x, y))]
    ELSE
        [a EXCEPT !.copies = IF hasTarget THEN @ + 1 ELSE @]

RECURSIVE DrawChars(_, _, _, _, _, _, _)
DrawChars(a, utf8_text, atlas, y, size, h_offset, hasTarget) ==
    IF utf8_text = <<>> THEN a
    ELSE DrawChars(DrawChar(a, Head(utf8_text), atlas, y, size, h_offset, hasTarget),
                   Tail(utf8_text), atlas, y, size, h_offset, hasTarget)

draw_utf8_text(utf8_text, atlas, x, y, size, h_offset, hasTarget, target, surface) ==
    LET t == EnsureTexture(hasTarget, target, surface) IN
    IF FinishedGuard(hasTarget, t.target)
    THEN Effect(t.target, t.surface, <<>>, <<>>, 1)
    ELSE LET a == DrawChars([current_x |-> x, surface |-> t.surface,
                             composited |-> <<>>, direct |-> <<>>, copies |-> 0],
                            utf8_text, atlas, y, size, h_offset, hasTarget)
         IN  Effect(IF hasTarget THEN [t.target EXCEPT !.finished = TRUE] ELSE t.target,
                    a.surface, a.composited, a.direct, a.copies)

draw_text(text, atlas, x, y, size, h_offset, hasTarget, target, surface) ==
    LET t == EnsureTexture(hasTarget, target, surface) IN
    IF FinishedGuard(hasTarget, t.target)
    THEN Effect(t.target, t.surface, <<>>, <<>>, 1)
    ELSE LET a == DrawChars([current_x |-> x, surface |-> t.surface,
                             composited |-> <<>>, direct |-> <<>>, copies |-> 0],
                            get_utf8_char_vector(text), atlas, y, size, h_offset,
                            hasTarget)
         IN  Effect(IF hasTarget THEN [t.target EXCEPT !.finished = TRUE] ELSE t.target,
                    a.surface, a.composited, a.direct, a.copies)

\* The lines draw_text_multiline draws: *c_lines when given, else its own split
MultilineLines(text, size, h_offset, rect, hasLines, c_lines) ==
    IF hasLines THEN c_lines ELSE split_text_by_size(text, size, h_offset, rect.w)

\* `for (auto l : lines)` of draw_text_multiline from line k on; e is the
\* effect so far.
RECURSIVE DrawLines(_, _, _, _, _, _, _, _, _)
DrawLines(e, lines, k, atlas, rect, size, h_offset, v_offset, hasTarget) ==
    IF k > Len(lines) THEN e
    ELSE LET current_y == rect.y + (k - 1) * ((size * v_offset) \div 100)
             d == draw_text(lines[k], atlas, rect.x, current_y, size, h_offset,
                            hasTarget,
                            IF hasTarget THEN [e.target EXCEPT !.finished = FALSE]
                            ELSE e.target,
                            e.surface)
         IN  DrawLines(Effect(d.target, d.surface, e.composited \o d.composited,
                              e.direct \o d.direct, e.copies + d.copies),
                       lines, k + 1, atlas, rect, size, h_offset, v_offset, hasTarget)

draw_text_multiline(text, atlas, rect, size, h_offset, v_offset, hasTarget, target, surface, hasLines, c_lines) ==
    IF FinishedGuard(hasTarget, target)
    THEN Effect(target, surface, <<>>, <<>>, 1)
    ELSE DrawLines(Effect(target, surface, <<>>, <<>>, 0),
                   MultilineLines(text, size, h_offset, rect, hasLines, c_lines),
                   1, atlas, rect, size, h_offset, v_offset, hasTarget)

\* ------------------------------------------------ Typewriter State Machine

\* Time units in one second (a unit is 0.05 s)
UnitsPerSecond == 20

\* A time passed through an int parameter: whole seconds only
IntSeconds(t) == (t \div UnitsPerSecond) * UnitsPerSecond

\* The constructor of TypeStats; _t and _d are int parameters.
TypeStats(_tc, _cx, _t, _d) ==
    [type_counter |-> _tc, current_x |-> _cx, timer |-> IntSeconds(_t),
     duration |-> IntSeconds(_d), utf8_text |-> <<>>]

\* `counter > length - 1` with length a size_t: an unsigned comparison, in
\* which 0 - 1 is the largest value and no counter exceeds it.
ExceedsLast(counter, length) == length # 0 /\ counter > length - 1

\* The decode without its `if`: every call decodes the text it is given
LazyDecodeAlways(stats, tmptext) ==
    [stats EXCEPT !.utf8_text = get_utf8_char_vector(tmptext)]

\* `if (stats.utf8_text.size() == 0)`: the lazy decode of the stripped text
LazyDecode(stats, tmptext) ==
    IF Len(stats.utf8_text) = 0
    THEN [stats EXCEPT !.utf8_text = get_utf8_char_vector(tmptext)]
    ELSE stats

\* `stats.type_counter > stats.utf8_text.size() - 1`
IsComplete(stats) == ExceedsLast(stats.type_counter, Len(stats.utf8_text))

\* The timer test with `>=`
TimerElapsedAtLeast(stats) == stats.timer >= stats.duration

\* The timer test with its operands exchanged
TimerElapsedSwapped(stats) == stats.duration > stats.timer

\* `stats.timer > stats.duration`
TimerElapsed(stats) == stats.timer > stats.duration

\* Whether the cursor goes back to rect.x before the character is placed;
\* previous_line is get_current_line(lines, type_counter - 1)
NewLineStarts(type_counter, current_line, previous_line) ==
    type_counter > 0 /\ current_line > previous_line

\* The skip test with `==` for the space marker: only a space is skipped
IsSkippedWhenSpace(c, atlas) ==
    get_char_index(c, atlas) = -1 /\ c = get_utf8_char_vector(<<Space, Space>>)[1]

\* The character has no glyph and is not the space marker
IsSkipped(c, atlas) ==
    get_char_index(c, atlas) = -1 /\ c # get_utf8_char_vector(<<Space, Space>>)[1]

\* The callback test with `>=`: it also holds one character early
CallbackDueEarly(stats, tmptext, callback) ==
    Len(tmptext) # 0 /\ stats.type_counter >= Len(tmptext) - 1 /\ callback

\* `stats.type_counter > tmptext.length() - 1 && callback != nullptr`
CallbackDue(stats, tmptext, callback) ==
    ExceedsLast(stats.type_counter, Len(tmptext)) /\ callback

\* What one call of draw_typewriter did
Event(path, e, called, reset, line, prev, pre, oob) ==
    [op |-> "draw_typewriter", path |-> path, composited |-> e.composited,
     copies |-> e.copies, callback |-> called, reset |-> reset, line |-> line,
     prev_line |-> prev, pre_counter |-> pre, oob |-> oob]

\* stats.utf8_text[stats.type_counter] is read outside the vector
OutOfRange(st) ==
    ~IsComplete(st) /\ TimerElapsed(st) /\ st.type_counter + 1 > Len(st.utf8_text)

\* The same for stats before the lazy decode
ReadsOutOfRange(text, stats) ==
    OutOfRange(LazyDecode(stats, remove_new_lines(text)))

\* The return of a call that types nothing: the cache is copied once
Idle(path, st, target, surface, pre) ==
    [stats |-> st, target |-> target, surface |-> surface,
     ev |-> Event(path, Effect(target, surface, <<>>, <<>>, 1),
                  FALSE, FALSE, -1, -1, pre, FALSE)]

\* `if (...) stats.current_x = rect.x`
Cursor(st, reset, rect) ==
    IF reset THEN [st EXCEPT !.current_x = rect.x] ELSE st

\* The skip without its `stats.type_counter++`
SkipKeepsCounter(st1, target, surface, reset, current_line, prev, pre, oob) ==
    [stats |-> st1, target |-> target, surface |-> surface,
     ev |-> Event("skip", Effect(target, surface, <<>>, <<>>, 1),
                  FALSE, reset, current_line, prev, pre, oob)]

\* The skip with the increment of the reveal added to its own
SkipCountsTwice(st1, target, surface, reset, current_line, prev, pre, oob) ==
    [stats |-> [st1 EXCEPT !.type_counter = @ + 2],
     target |-> target, surface |-> surface,
     ev |-> Event("skip", Effect(target, surface, <<>>, <<>>, 1),
                  FALSE, reset, current_line, prev, pre, oob)]

\* The character has no glyph: type_counter++, copy the cache, return
Skip(st1, target, surface, reset, current_line, prev, pre, oob) ==
    [stats |-> [st1 EXCEPT !.type_counter = @ + 1],
     target |-> target, surface |-> surface,
     ev |-> Event("skip", Effect(target, surface, <<>>, <<>>, 1),
                  FALSE, reset, current_line, prev, pre, oob)]

\* The same without `stats.timer = 0`
TypedKeepsTimer(tmptext, st1, e, size, callback, h_offset, reset, current_line, prev, pre, oob) ==
    LET st2 == [st1 EXCEPT !.current_x = @ + Advance(size, h_offset),
                           !.type_counter = @ + 1]
    IN  [stats |-> st2, target |-> e.target, surface |-> e.surface,
         ev |-> Event("reveal", e, CallbackDue(st2, tmptext, callback),
                      reset, current_line, prev, pre, oob)]

\* After draw_utf8_text (its effect is e): advance the cursor, reset the
\* timer, count the character, and test for the callback
Typed(tmptext, st1, e, size, callback, h_offset, reset, current_line, prev, pre, oob) ==
    LET st2 == [st1 EXCEPT !.current_x = @ + Advance(size, h_offset),
                           !.timer = 0,
                           !.type_counter = @ + 1]
    IN  [stats |-> st2, target |-> e.target, surface |-> e.surface,
         ev |-> Event("reveal", e, CallbackDue(st2, tmptext, callback),
                      reset, current_line, prev, pre, oob)]

\* The body of `if (stats.timer > stats.duration)` once the cursor is placed
\* (st1) and the character c is read
Place(tmptext, st1, c, atlas, rect, target, surface, size, callback, h_offset, v_offset, reset, current_line, prev, pre, oob) ==
    IF IsSkipped(c, atlas)
    THEN Skip(st1, target, surface, reset, current_line, prev, pre, oob)
    ELSE Typed(tmptext, st1,
               draw_utf8_text(<<c>>, atlas, st1.current_x,
                              rect.y + (current_line * ((size * v_offset) \div 100)),
                              size, h_offset, TRUE,
                              [target EXCEPT !.finished = FALSE], surface),
               size, callback, h_offset, reset, current_line, prev, pre, oob)

\* The call after the lazy decode: lines, tmptext and st = stats with
\* utf8_text filled.  prev is get_current_line(lines, type_counter - 1).
Tick(lines, tmptext, st, current_line, prev, atlas, rect, target, surface, size, callback, h_offset, v_offset, read, pre) ==
    IF IsComplete(st) THEN Idle("complete", st, target, surface, pre)
    ELSE IF TimerElapsed(st) THEN
        Place(tmptext,
              Cursor(st, NewLineStarts(st.type_counter, current_line, prev), rect),
              IF st.type_counter + 1 > Len(st.utf8_text)
              THEN read ELSE st.utf8_text[st.type_counter + 1],
              atlas, rect, target, surface, size, callback, h_offset, v_offset,
              NewLineStarts(st.type_counter, current_line, prev),
              current_line, prev, pre,
              st.type_counter + 1 > Len(st.utf8_text))
    ELSE Idle("wait", st, target, surface, pre)

\* The lines and the line indices of the call, for st = stats after the
\* lazy decode
Laid(lines, tmptext, st, atlas, rect, target, surface, size, callback, h_offset, v_offset, read, pre) ==
    Tick(lines, tmptext, st,
         get_current_line(lines, st.type_counter),
         get_current_line(lines, st.type_counter - 1),
         atlas, rect, target, surface, size, callback, h_offset, v_offset, read, pre)

\* One call of draw_typewriter.  read is the value an out-of-range read of
\* stats.utf8_text yields; it is used only when ReadsOutOfRange.
draw_typewriter(text, atlas, rect, target, surface, stats, size, callback, h_offset, v_offset, read) ==
    Laid(get_all_lines(text, size, h_offset, rect.w),
         remove_new_lines(text),
         LazyDecode(stats, remove_new_lines(text)),
         atlas, rect, target, surface, size, callback, h_offset, v_offset, read,
         stats.type_counter)

\* ------------------------------------------------------------------ inputs

\* The characters texts are made of: "a", " ", "\n", "é" (2 bytes, in the
\* atlas) and "|" (not in the atlas).
Alphabet == {<<97>>, <<Space>>, <<NewLine>>, <<195, 169>>, <<124>>}

RECURSIVE TextsOfLen(_)
TextsOfLen(n) ==
    IF n = 0 THEN {<<>>}
    ELSE {t \o ch : t \in TextsOfLen(n - 1), ch \in Alphabet}

Texts == UNION {TextsOfLen(n) : n \in 0..MaxLen}

\* draw_typewriter(multiline_text, atlas, renderer, rect, &comb1, stats, 18,
\*                 &on_finish_draw, 57, 100) with rect = {16, 40, 480 - 16, ..}
FontSize == 18

HOffset == 57

VOffset == 100

RectX == 16

RectY == 40

\* rect.w: room for two characters, and the sample program's 480 - 16
RectWidths == {16, 464}

Rect(w) == [x |-> RectX, y |-> RectY, w |-> w]

\* Per-character durations a caller asks for: 0 and 0.1 s
DurationArgs == {0, 2}

\* The time a frame adds to stats.timer: 0.05 s or 0.1 s
Deltas == {1, 2}

\* What a read outside stats.utf8_text may yield
GarbageReads == {CharToInt(97), CharToInt(124), SpaceChar}

\* Layout parameters for the calls of the layout functions
LayoutSizes == {8, FontSize}

LayoutHOffsets == {0, HOffset, 100}

LayoutMaxLengths == {0, 16, 24, 464}

\* Longer texts for the layout functions: "a a a", "aa  a\na a", "a\ta",
\* " aaa a ", "a\n\na a", "\u00e9\u00e9 a|"
LongTexts ==
    {<<97, 32, 97, 32, 97>>,
     <<97, 97, 32, 32, 97, 10, 97, 32, 97>>,
     <<97, 9, 97>>,
     <<32, 97, 97, 97, 32, 97, 32>>,
     <<97, 10, 10, 97, 32, 97>>,
     <<195, 169, 195, 169, 32, 97, 124>>}

LayoutTexts == Texts \cup LongTexts

\* ------------------------------------------------------------------- state

VARIABLES
    text,       \* the text the caller draws
    rect_w,     \* rect.w
    callback,   \* whether a completion callback is supplied
    delta,      \* the time the frame loop adds per frame
    stats,      \* TypeStats
    target,     \* CombinedTexture: finished, texture (allocated or null)
    surface,    \* the glyphs composited onto target->texture
    ev,         \* what the last draw call did
    pc,         \* where the caller is
    ticks,      \* calls of draw_typewriter so far
    callbacks,  \* invocations of the callback so far
    lay         \* a call of a layout function: arguments and result

vars == <<text, rect_w, callback, delta, stats, target, surface, ev, pc, ticks, callbacks, lay>>

NoEvent == [op |-> "none"]

NoLayout == [called |-> "none"]

NewCombinedTexture == [finished |-> FALSE, texture |-> FALSE]

\* ------------------------------------------- the sample program's frame loop

\* TypeStats stats(0, 16, 0.0f, d), after which the caller may assign the
\* public field duration
Init ==
    /\ text \in Texts
    /\ rect_w \in RectWidths
    /\ callback \in BOOLEAN
    /\ delta \in Deltas
    /\ \E d \in DurationArgs :
          stats \in {TypeStats(0, RectX, 0, d),
                     [TypeStats(0, RectX, 0, d) EXCEPT !.duration = d]}
    /\ target = NewCombinedTexture
    /\ surface = {}
    /\ ev = NoEvent
    /\ pc = "draw"
    /\ ticks = 0
    /\ callbacks = 0
    /\ lay = NoLayout

\* The call of draw_typewriter in the loop of main.  A call that reads
\* outside stats.utf8_text has undefined behaviour: the read yields some
\* value or faults, and the run is not followed further.
DrawTypewriter ==
    /\ pc = "draw"
    /\ ticks < MaxTicks
    /\ \E read \in (IF ReadsOutOfRange(text, stats) THEN GarbageReads ELSE {SpaceChar}) :
       \E r \in {draw_typewriter(text, atlas_characters, Rect(rect_w), target, surface, stats, FontSize, callback, HOffset, VOffset, read)} :
          /\ stats' = r.stats
          /\ target' = r.target
          /\ surface' = r.surface
          /\ ev' = r.ev
          /\ callbacks' = IF r.ev.callback THEN callbacks + 1 ELSE callbacks
          /\ pc' = IF r.ev.oob THEN "undefined" ELSE "frame"
    /\ ticks' = ticks + 1
    /\ UNCHANGED <<text, rect_w, callback, delta, lay>>

\* The read outside stats.utf8_text faults instead of yielding a value
DrawTypewriterFault ==
    /\ pc = "draw"
    /\ ticks < MaxTicks
    /\ ReadsOutOfRange(text, stats)
    /\ pc' = "fault"
    /\ ticks' = ticks + 1
    /\ UNCHANGED <<text, rect_w, callback, delta, stats, target, surface, ev, callbacks, lay>>

\* `stats.timer += delta_time` at the end of the frame
AddDelta ==
    /\ pc = "frame"
    /\ stats' = [stats EXCEPT !.timer = @ + delta]
    /\ pc' = "draw"
    /\ UNCHANGED <<text, rect_w, callback, delta, target, surface, ev, ticks, callbacks, lay>>

Next == DrawTypewriter \/ DrawTypewriterFault \/ AddDelta

Spec == Init /\ [][Next]_vars

\* ------------------------------------------------- the static renderers

\* What one call of a static renderer did
StaticEvent(op, hasTarget, hasLines, lines, e) ==
    [op |-> op, hasTarget |-> hasTarget, was_finished |-> target.finished,
     hasLines |-> hasLines, lines |-> lines, composited |-> e.composited,
     direct |-> e.direct, copies |-> e.copies]

\* A caller that draws one text with the static renderers, with or without
\* a CombinedTexture
InitStatic ==
    /\ text \in Texts
    /\ rect_w \in RectWidths
    /\ callback = FALSE
    /\ delta = 0
    /\ stats = TypeStats(0, RectX, 0, 0)
    /\ target = NewCombinedTexture
    /\ surface = {}
    /\ ev = NoEvent
    /\ pc = "static"
    /\ ticks = 0
    /\ callbacks = 0
    /\ lay = NoLayout

\* The effect e of a static draw call
Drawn(e, event) ==
    /\ pc = "static"
    /\ target' = e.target
    /\ surface' = e.surface
    /\ ev' = event
    /\ UNCHANGED <<text, rect_w, callback, delta, stats, pc, ticks, callbacks, lay>>

\* draw_text(text, atlas, renderer, 16, 40, 18, 57[, &comb1])
CallDrawText ==
    \E hasTarget \in BOOLEAN :
    \E e \in {draw_text(text, atlas_characters, RectX, RectY, FontSize, HOffset, hasTarget, target, surface)} :
        Drawn(e, StaticEvent("draw_text", hasTarget, FALSE, <<>>, e))

\* draw_utf8_text(get_utf8_char_vector(text), atlas, renderer, 16, 40, 18, 57, target)
CallDrawUtf8Text ==
    \E hasTarget \in BOOLEAN :
    \E e \in {draw_utf8_text(get_utf8_char_vector(text), atlas_characters, RectX, RectY, FontSize, HOffset, hasTarget, target, surface)} :
        Drawn(e, StaticEvent("draw_utf8_text", hasTarget, FALSE, <<>>, e))

\* draw_text_multiline(text, atlas, renderer, rect, 18, 57, 100[, target[, &lines]]);
\* a caller that passes lines has them from get_all_lines
CallDrawTextMultiline ==
    \E hasTarget \in BOOLEAN, hasLines \in BOOLEAN :
    /\ pc = "static"
    /\ \E c_lines \in {IF hasLines THEN get_all_lines(text, FontSize, HOffset, rect_w) ELSE <<>>} :
       \E e \in {draw_text_multiline(text, atlas_characters, Rect(rect_w), FontSize, HOffset, VOffset, hasTarget, target, surface, hasLines, c_lines)} :
          Drawn(e, StaticEvent("draw_text_multiline", hasTarget, hasLines,
                               MultilineLines(text, FontSize, HOffset, Rect(rect_w), hasLines, c_lines), e))

\* An external actor clears finished to force a redraw
ClearFinished ==
    /\ pc = "static"
    /\ target.finished
    /\ target' = [target EXCEPT !.finished = FALSE]
    /\ UNCHANGED <<text, rect_w, callback, delta, stats, surface, ev, pc, ticks, callbacks, lay>>

NextStatic == CallDrawText \/ CallDrawUtf8Text \/ CallDrawTextMultiline \/ ClearFinished

SpecStatic == InitStatic /\ [][NextStatic]_vars

\* ------------------------------------------------- the layout functions

LayoutCall(called, t, size, h_offset, max_length, lines, index, line) ==
    [called |-> called, text |-> t, size |-> size, h_offset |-> h_offset,
     max_length |-> max_length, lines |-> lines, index |-> index, line |-> line]

\* The arguments of a call of a layout function
InitLayout ==
    /\ text = <<>>
    /\ rect_w = 0
    /\ callback = FALSE
    /\ delta = 0
    /\ stats = TypeStats(0, RectX, 0, 0)
    /\ target = NewCombinedTexture
    /\ surface = {}
    /\ ev = NoEvent
    /\ pc = "layout"
    /\ ticks = 0
    /\ callbacks = 0
    /\ \E t \in LayoutTexts, size \in LayoutSizes, h_offset \in LayoutHOffsets, max_length \in LayoutMaxLengths :
          lay = LayoutCall("none", t, size, h_offset, max_length, <<>>, 0, 0)

CallSplitTextBySize ==
    /\ pc = "layout"
    /\ lay.called = "none"
    /\ lay' = [lay EXCEPT !.called = "split_text_by_size",
                          !.lines = split_text_by_size(lay.text, lay.size, lay.h_offset, lay.max_length)]
    /\ UNCHANGED <<text, rect_w, callback, delta, stats, target, surface, ev, pc, ticks, callbacks>>

CallGetAllLines ==
    /\ pc = "layout"
    /\ lay.called = "none"
    /\ lay' = [lay EXCEPT !.called = "get_all_lines",
                          !.lines = get_all_lines(lay.text, lay.size, lay.h_offset, lay.max_length)]
    /\ UNCHANGED <<text, rect_w, callback, delta, stats, target, surface, ev, pc, ticks, callbacks>>

\* get_current_line on the lines of get_all_lines, for the indices
\* draw_typewriter asks for and those past them, beyond the running total
CallGetCurrentLine ==
    /\ pc = "layout"
    /\ lay.called = "get_all_lines"
    /\ \E i \in -1..(Len(lay.text) + 2) :
          lay' = [lay EXCEPT !.called = "get_current_line",
                             !.index = i,
                             !.line = get_current_line(lay.lines, i)]
    /\ UNCHANGED <<text, rect_w, callback, delta, stats, target, surface, ev, pc, ticks, callbacks>>

NextLayout == CallSplitTextBySize \/ CallGetAllLines \/ CallGetCurrentLine

SpecLayout == InitLayout /\ [][NextLayout]_vars

\* ------------------------------------------------ frame loop, run forever

\* The loop of main, its frames not counted
InitForever ==
    /\ text \in Texts
    /\ rect_w \in RectWidths
    /\ callback = TRUE
    /\ delta \in Deltas
    /\ \E d \in DurationArgs :
          stats \in {TypeStats(0, RectX, 0, d),
                     [TypeStats(0, RectX, 0, d) EXCEPT !.duration = d]}
    /\ target = NewCombinedTexture
    /\ surface = {}
    /\ ev = NoEvent
    /\ pc = "draw"
    /\ ticks = 0
    /\ callbacks = 0
    /\ lay = NoLayout

\* The call of draw_typewriter of a frame
DrawTypewriterForever ==
    /\ pc = "draw"
    /\ \E read \in (IF ReadsOutOfRange(text, stats) THEN GarbageReads ELSE {SpaceChar}) :
       \E r \in {draw_typewriter(text, atlas_characters, Rect(rect_w), target, surface, stats, FontSize, callback, HOffset, VOffset, read)} :
          /\ stats' = r.stats
          /\ target' = r.target
          /\ surface' = r.surface
          /\ ev' = r.ev
          /\ callbacks' = IF r.ev.callback THEN callbacks + 1 ELSE callbacks
          /\ pc' = IF r.ev.oob THEN "undefined" ELSE "frame"
    /\ UNCHANGED <<text, rect_w, callback, delta, ticks, lay>>

\* The read outside stats.utf8_text faults
DrawTypewriterForeverFault ==
    /\ pc = "draw"
    /\ ReadsOutOfRange(text, stats)
    /\ pc' = "fault"
    /\ UNCHANGED <<text, rect_w, callback, delta, stats, target, surface, ev, ticks, callbacks, lay>>

\* `stats.timer += delta_time`.  A timer above MaxTimer is not followed
\* further: it exceeds every duration explored, and adding to it does not
\* change the outcome of `stats.timer > stats.duration`.
AddDeltaForever ==
    /\ pc = "frame"
    /\ stats' = [stats EXCEPT !.timer = IF @ > MaxTimer THEN @ ELSE @ + delta]
    /\ pc' = "draw"
    /\ UNCHANGED <<text, rect_w, callback, delta, target, surface, ev, ticks, callbacks, lay>>

NextForever == DrawTypewriterForever \/ DrawTypewriterForeverFault \/ AddDeltaForever

\* main calls draw_typewriter and adds delta_time in every pass of its loop.
\* A call is enabled whenever pc = "draw" and always leaves it, so weak
\* fairness of the call is that pc is not "draw" forever.
SpecForever ==
    /\ InitForever
    /\ [][NextForever]_vars
    /\ []<>(pc # "draw")
    /\ WF_vars(AddDeltaForever)

\* ---------------------------------------------- static draw, text changed

\* The texts of a caller that redraws a cache with another text:
\* "", "a", " a", "é", "a|a"
RedrawTexts ==
    {<<>>, <<97>>, <<Space, 97>>, <<195, 169>>, <<97, 124, 97>>}

\* A caller that draws a text with draw_text, with or without a
\* CombinedTexture, and may change the text
InitRedraw ==
    /\ text \in RedrawTexts
    /\ rect_w = 464
    /\ callback = FALSE
    /\ delta = 0
    /\ stats = TypeStats(0, RectX, 0, 0)
    /\ target = NewCombinedTexture
    /\ surface = {}
    /\ ev = NoEvent
    /\ pc = "static"
    /\ ticks = 0
    /\ callbacks = 0
    /\ lay = NoLayout

\* The text content changes
ChangeText ==
    /\ pc = "static"
    /\ \E t \in RedrawTexts \ {text} : text' = t
    /\ UNCHANGED <<rect_w, callback, delta, stats, target, surface, ev, pc, ticks, callbacks, lay>>

NextRedraw == CallDrawText \/ ClearFinished \/ ChangeText

SpecRedraw == InitRedraw /\ [][NextRedraw]_vars

\* ------------------------------------------- frame loop, stats constructed

\* The arguments of a call of the constructor of TypeStats
Constructed(_tc, _cx, _t, _d) ==
    [called |-> "TypeStats", _tc |-> _tc, _cx |-> _cx, _t |-> _t, _d |-> _d]

\* The loop of main with stats as `TypeStats stats(0, 16, 0.0f, d)` leaves it
InitConstructed ==
    /\ text \in Texts
    /\ rect_w \in RectWidths
    /\ callback \in BOOLEAN
    /\ delta \in Deltas
    /\ \E d \in DurationArgs :
          /\ stats = TypeStats(0, RectX, 0, d)
          /\ lay = Constructed(0, RectX, 0, d)
    /\ target = NewCombinedTexture
    /\ surface = {}
    /\ ev = NoEvent
    /\ pc = "draw"
    /\ ticks = 0
    /\ callbacks = 0

SpecConstructed == InitConstructed /\ [][Next]_vars

\* ------------------------------------------------ frame loop, text changed

\* The texts a caller that changes its string between frames passes:
\* "", "a", "|a", "a\na", "é a"
RetextTexts ==
    {<<>>, <<97>>, <<124, 97>>, <<97, NewLine, 97>>, <<195, 169, Space, 97>>}

\* The loop of main with one TypeStats and a string the caller may change
InitRetext ==
    /\ text \in RetextTexts
    /\ rect_w = 464
    /\ callback = FALSE
    /\ delta = 1
    /\ stats = TypeStats(0, RectX, 0, 0)
    /\ target = NewCombinedTexture
    /\ surface = {}
    /\ ev = NoEvent
    /\ pc = "draw"
    /\ ticks = 0
    /\ callbacks = 0
    /\ lay = NoLayout

\* The caller assigns another text to the string it passes by reference
SetText ==
    /\ pc = "draw"
    /\ ticks < MaxTicks
    /\ \E t \in RetextTexts \ {text} : text' = t
    /\ UNCHANGED <<rect_w, callback, delta, stats, target, surface, ev, pc, ticks, callbacks, lay>>

NextRetext == DrawTypewriter \/ DrawTypewriterFault \/ AddDelta \/ SetText

SpecRetext == InitRetext /\ [][NextRetext]_vars

\* ----------------------------------------------------------- UTF-8 calls

\* Characters of one, two, three and four bytes: "a", "|", "é", "€", "😀",
\* U+20100 and U+E0100
DecodeAlphabet ==
    {<<97>>, <<124>>, <<195, 169>>, <<226, 130, 172>>, <<240, 159, 152, 128>>,
     <<240, 160, 132, 128>>, <<243, 160, 132, 128>>}

\* The bytes of a sequence of characters
RECURSIVE Bytes(_)
Bytes(chars) ==
    IF chars = <<>> THEN <<>> ELSE Head(chars) \o Bytes(Tail(chars))

\* The strings of n characters, each as its sequence of characters
RECURSIVE CharsOfLen(_)
CharsOfLen(n) ==
    IF n = 0 THEN {<<>>}
    ELSE {Append(chars, ch) : chars \in CharsOfLen(n - 1), ch \in DecodeAlphabet}

\* The code points get_char_index is asked for: those of the alphabet
Characters == {get_utf8_char_vector(ch)[1] : ch \in DecodeAlphabet}

\* A call of get_utf8_char_vector(text) or get_char_index(character, text)
DecodeCall(called, chars, converted, character, index) ==
    [called |-> called, chars |-> chars, text |-> Bytes(chars),
     converted |-> converted, character |-> character, index |-> index]

\* The string passed as text, or as atlas
InitDecode ==
    /\ text = <<>>
    /\ rect_w = 0
    /\ callback = FALSE
    /\ delta = 0
    /\ stats = TypeStats(0, RectX, 0, 0)
    /\ target = NewCombinedTexture
    /\ surface = {}
    /\ ev = NoEvent
    /\ pc = "decode"
    /\ ticks = 0
    /\ callbacks = 0
    /\ \E n \in 0..MaxChars : \E chars \in CharsOfLen(n) :
          lay = DecodeCall("none", chars, <<>>, Zero32, 0)

CallGetUtf8CharVector ==
    /\ pc = "decode"
    /\ lay.called = "none"
    /\ lay' = [lay EXCEPT !.called = "get_utf8_char_vector",
                          !.converted = get_utf8_char_vector(lay.text)]
    /\ UNCHANGED <<text, rect_w, callback, delta, stats, target, surface, ev, pc, ticks, callbacks>>

CallGetCharIndex ==
    /\ pc = "decode"
    /\ lay.called = "none"
    /\ \E character \in Characters :
          lay' = [lay EXCEPT !.called = "get_char_index",
                             !.character = character,
                             !.index = get_char_index(character, lay.text)]
    /\ UNCHANGED <<text, rect_w, callback, delta, stats, target, surface, ev, pc, ticks, callbacks>>

NextDecode == CallGetUtf8CharVector \/ CallGetCharIndex

SpecDecode == InitDecode /\ [][NextDecode]_vars

\* ------------------------------------------------------------------ claims

\* The code points draw_typewriter reveals: those of the text without '\n'
Revealed(t) == get_utf8_char_vector(remove_new_lines(t))

\* Their number
CodePoints(t) == Len(Revealed(t))

\* The last call was a tick of draw_typewriter
Ticked == ev.op = "draw_typewriter"

\* C1: with a callback supplied and a text of at least one code point, the
\* tick in which type_counter reaches the number of decoded code points
\* invokes the callback, whatever the byte length of the characters and
\* whether or not the last code point has a glyph.
C1_CallbackOnCompletion ==
    (/\ callback
     /\ CodePoints(text) > 0
     /\ Ticked
     /\ ev.pre_counter < CodePoints(text)
     /\ stats.type_counter = CodePoints(text))
    => ev.callback

\* C2: over the ticks of one TypeStats the callback is invoked at most once,
\* only by a tick that reveals a character, and never by a tick that starts
\* with type_counter at or past the number of decoded code points.
C2_CallbackAtMostOnce ==
    /\ callbacks <= 1
    /\ (Ticked /\ ev.callback) =>
          /\ ev.path = "reveal"
          /\ stats.type_counter = ev.pre_counter + 1
          /\ ev.pre_counter < CodePoints(text)

\* The callback was invoked and idle ticks on the complete text followed
C2_Witness ==
    /\ Ticked
    /\ callbacks = 1
    /\ ev.path = "complete"
    /\ ~ev.callback

\* C3: a call of a static renderer with a target whose finished flag is set
\* composites nothing onto the cached surface, copies the cache to the output
\* once and leaves finished set; only clearing the flag ends this.
C3_FinishedOnlyBlits ==
    [][(pc = "static" /\ target.finished /\ ~ClearFinished) =>
          /\ target' = target
          /\ surface' = surface
          /\ ev'.hasTarget =>
                /\ ev'.was_finished
                /\ ev'.composited = <<>>
                /\ ev'.direct = <<>>
                /\ ev'.copies = 1]_vars

\* draw_text_multiline was called on a finished cache that holds glyphs
C3_Witness ==
    /\ ev.op = "draw_text_multiline"
    /\ ev.hasTarget
    /\ ev.was_finished
    /\ ev.copies = 1
    /\ target.finished
    /\ surface # {}

\* A code point that is whitespace
IsSpaceChar(c) == c[1] = 0 /\ c[2] = 0 /\ c[3] = 0 /\ IsSpace(c[4])

\* The code points of u that are not whitespace, in order
NonSpaces(u) == SelectSeq(u, LAMBDA c : ~IsSpaceChar(c))

\* 0-based index of the line that holds the k-th code point that is not
\* whitespace, counting through the lines from line i on
RECURSIVE LineHolding(_, _, _)
LineHolding(lines, k, i) ==
    IF i > Len(lines) THEN -1
    ELSE LET n == Len(NonSpaces(get_utf8_char_vector(lines[i])))
         IN  IF k <= n THEN i - 1 ELSE LineHolding(lines, k - n, i + 1)

\* The layout line that contains code point number index (0-based) of the
\* text without '\n': layout keeps every code point that is not whitespace,
\* in order, so it is the line holding as many of them as precede it
LineOfChar(t, lines, index) ==
    LineHolding(lines, Len(NonSpaces(SubSeq(Revealed(t), 1, index + 1))), 1)

\* C4: for the lines of get_all_lines and every index of a code point that
\* draw_typewriter draws, get_current_line gives the index of the layout
\* line that contains that code point.
C4_CurrentLineIsTrueLine ==
    (/\ lay.called = "get_current_line"
     /\ lay.index >= 0
     /\ lay.index < CodePoints(lay.text)
     /\ ~IsSpaceChar(Revealed(lay.text)[lay.index + 1]))
    => lay.line = LineOfChar(lay.text, lay.lines, lay.index)

\* A tick that finds the timer not above duration and the text not complete
WaitTick ==
    /\ pc = "draw"
    /\ pc' = "frame"
    /\ ~(stats.timer > stats.duration)
    /\ stats.type_counter < CodePoints(text)

\* What a tick that reveals nothing leaves alone, besides stats
NothingRevealed ==
    /\ target' = target
    /\ surface' = surface
    /\ callbacks' = callbacks
    /\ ev'.composited = <<>>
    /\ ev'.copies = 1
    /\ ~ev'.callback

\* C5 as stated: a tick with the timer not above duration, on a text that is
\* not complete, changes no field of stats (the decoded sequence included)
\* nor the cache, invokes no callback and only copies the cache.
C5_WaitTickChangesNothing ==
    [][WaitTick => (stats' = stats /\ NothingRevealed)]_vars

\* C5: such a tick changes type_counter, current_x, timer and the cache not
\* at all, invokes no callback and only copies the cache; the decoded
\* sequence is unchanged too, except that a tick that finds it empty fills
\* it with the code points of the text without '\n'.
C5_WaitTickOnlyDecodes ==
    [][WaitTick =>
          /\ stats' = [stats EXCEPT !.utf8_text =
                          IF @ = <<>> THEN Revealed(text) ELSE @]
          /\ NothingRevealed]_vars

\* A tick in the middle of a text waited
C5_Witness ==
    /\ Ticked
    /\ pc = "frame"
    /\ ev.path = "wait"
    /\ stats.type_counter > 0
    /\ stats.type_counter < CodePoints(text)
    /\ ~(stats.timer > stats.duration)

\* duration is 0.1 s, every frame adds 0.05 s, and there is a first code
\* point to reveal
TenthSecondTicks ==
    /\ stats.duration = UnitsPerSecond \div 10
    /\ delta = UnitsPerSecond \div 20
    /\ CodePoints(text) > 0

\* C6 as stated: with duration 0.1 s and 0.05 s added after every tick, no
\* character is revealed before tick 2 and tick 2 reveals exactly one.
C6_RevealAtTickTwo ==
    (TenthSecondTicks /\ ~IsSkipped(Revealed(text)[1], atlas_characters)) =>
        /\ ticks < 2 => stats.type_counter = 0
        /\ ticks = 2 => (ev.path = "reveal" /\ stats.type_counter = 1)

\* C6: with duration 0.1 s and 0.05 s added after every tick, ticks 1 to 3
\* reveal nothing (0, 0.05 and 0.1 s do not exceed 0.1 s) and tick 4 takes
\* exactly one code point: it reveals it, or skips it when it has no glyph
\* and is not a space.
C6_RevealAtTickFour ==
    TenthSecondTicks =>
        /\ ticks < 4 => (stats.type_counter = 0 /\ surface = {})
        /\ ticks = 4 =>
              /\ stats.type_counter = 1
              /\ ev.pre_counter = 0
              /\ Len(ev.composited) <= 1
              /\ ev.path = IF IsSkipped(Revealed(text)[1], atlas_characters)
                           THEN "skip" ELSE "reveal"

\* Tick 4 drew the first glyph
C6_Witness ==
    /\ TenthSecondTicks
    /\ ticks = 4
    /\ ev.path = "reveal"
    /\ Len(ev.composited) = 1
    /\ surface # {}

\* C7: a tick that passes the timer check resets current_x to rect.x exactly
\* when get_current_line at type_counter differs from get_current_line at
\* type_counter - 1.
C7_ResetIffLineDiffers ==
    (Ticked /\ ev.path \in {"skip", "reveal"}) =>
        (ev.reset <=> ev.line # ev.prev_line)

\* size - size*h_offset/100 for the call recorded in lay
EffectiveAdvance == lay.size - ((lay.size * lay.h_offset) \div 100)

\* The line's char_count * effective_advance is within max_length
WithinMaxLength(line) ==
    Len(get_utf8_char_vector(line)) * EffectiveAdvance <= lay.max_length

\* C8 as stated: every line split_text_by_size returns satisfies
\* char_count * effective_advance <= max_length.
C8_EveryLineFits ==
    lay.called = "split_text_by_size" =>
        \A k \in 1..Len(lay.lines) : WithinMaxLength(lay.lines[k])

\* C8: for size >= 0, h_offset in 0..100 and max_length >= 0, every line of
\* split_text_by_size that holds more than one token satisfies
\* char_count * effective_advance <= max_length; a line that exceeds
\* max_length consists of a single token.
C8_JoinedLinesFit ==
    lay.called = "split_text_by_size" =>
        \A k \in 1..Len(lay.lines) :
            Len(Words(lay.lines[k])) > 1 => WithinMaxLength(lay.lines[k])

\* Two tokens were joined into a line that fills max_length exactly, and
\* the next token went to a second line
C8_Witness ==
    /\ lay.called = "split_text_by_size"
    /\ Len(lay.lines) = 2
    /\ Len(Words(lay.lines[1])) = 2
    /\ EffectiveAdvance > 0
    /\ Len(lay.lines[1]) * EffectiveAdvance = lay.max_length

\* The tokens of the lines, read line by line
RECURSIVE TokensOf(_)
TokensOf(lines) ==
    IF lines = <<>> THEN <<>> ELSE Words(Head(lines)) \o TokensOf(Tail(lines))

\* The tokens joined by single spaces
RECURSIVE JoinWords(_)
JoinWords(ws) ==
    IF ws = <<>> THEN <<>>
    ELSE IF Len(ws) = 1 THEN ws[1]
    ELSE ws[1] \o <<Space>> \o JoinWords(Tail(ws))

\* C9: the whitespace-delimited tokens of the lines split_text_by_size
\* returns, read line by line, are the tokens of the input in the same
\* order, and every line is its tokens joined by exactly one space.
C9_SplitsOnlyAtWhitespace ==
    lay.called = "split_text_by_size" =>
        /\ TokensOf(lay.lines) = Words(lay.text)
        /\ \A k \in 1..Len(lay.lines) :
              /\ lay.lines[k] # <<>>
              /\ lay.lines[k] = JoinWords(Words(lay.lines[k]))

\* A text of three tokens was laid out on two lines, one of them joined
C9_Witness ==
    /\ lay.called = "split_text_by_size"
    /\ Len(Words(lay.text)) = 3
    /\ Len(lay.lines) = 2
    /\ lay.text # JoinWords(Words(lay.text))

\* C10: draw_text_multiline called without precomputed lines draws the line
\* sequence get_all_lines produces for the same text, size, h_offset and
\* rect width, which is the sequence draw_typewriter uses.
C10_MultilineDrawsAllLines ==
    (/\ ev.op = "draw_text_multiline"
     /\ ~ev.hasLines
     /\ ~(ev.hasTarget /\ ev.was_finished))
    => ev.lines = get_all_lines(text, FontSize, HOffset, rect_w)

\* A call of draw_typewriter by the frame loop
TickStep == pc = "draw" /\ pc' # pc

\* The tick is past the timer check with a code point left to take
PastTimerCheck ==
    /\ stats.timer > stats.duration
    /\ stats.type_counter < CodePoints(text)

\* The code point at type_counter
NextCodePoint == Revealed(text)[stats.type_counter + 1]

\* The code point has a glyph: it is one of the atlas alphabet
HasGlyph(c) ==
    \E k \in 1..Len(get_utf8_char_vector(atlas_characters)) :
        get_utf8_char_vector(atlas_characters)[k] = c

\* The cursor the tick places the code point at: rect.x after a reset
CursorAtDraw == IF ev'.reset THEN RectX ELSE stats.current_x

\* C11: a tick past the timer check whose code point has no glyph and is not
\* a space draws nothing on the cached surface, increases type_counter by
\* one, does not advance current_x, leaves target->finished alone, copies the
\* cache to the output and returns; it does not fail.
C11_UnmappedGlyphIsSkipped ==
    [][(/\ TickStep
        /\ PastTimerCheck
        /\ ~HasGlyph(NextCodePoint)
        /\ NextCodePoint # <<0, 0, 0, Space>>) =>
          /\ pc' = "frame"
          /\ ev'.path = "skip"
          /\ stats'.type_counter = stats.type_counter + 1
          /\ stats'.current_x = CursorAtDraw
          /\ target' = target
          /\ surface' = surface
          /\ ev'.composited = <<>>
          /\ ev'.copies = 1]_vars

\* A code point without glyph was skipped after glyphs had been drawn
C11_Witness ==
    /\ Ticked
    /\ pc = "frame"
    /\ ev.path = "skip"
    /\ ev.pre_counter > 0
    /\ surface # {}

\* C12: once type_counter is at or past the number of decoded code points,
\* every tick leaves type_counter, current_x, timer, the decoded sequence
\* and target->finished unchanged, composites nothing and only copies the
\* cache to the output.
C12_CompleteIsAbsorbing ==
    [][(TickStep /\ stats.type_counter >= CodePoints(text)) =>
          /\ pc' = "frame"
          /\ stats' = stats
          /\ target' = target
          /\ surface' = surface
          /\ ev'.composited = <<>>
          /\ ev'.copies = 1]_vars

\* The sum of the lines' code-point counts
RECURSIVE SumCodePoints(_)
SumCodePoints(lines) ==
    IF lines = <<>> THEN 0
    ELSE CodePoints(Head(lines)) + SumCodePoints(Tail(lines))

\* C13 as stated: get_current_line returns -1 for every current_char greater
\* than or equal to the sum of the lines' code-point counts.
C13_NotFoundFromSum ==
    (lay.called = "get_current_line" /\ lay.index >= SumCodePoints(lay.lines)) =>
        lay.line = -1

\* C13 amended: get_current_line returns -1 exactly when there is no line or
\* current_char is greater than or equal to the sum over the lines of
\* (code-point count + 1).
C13_NotFoundFromRunningTotal ==
    lay.called = "get_current_line" =>
        (lay.line = -1 <=>
            \/ lay.lines = <<>>
            \/ lay.index >= SumCodePoints(lay.lines) + Len(lay.lines))

\* The first index that is not found, on two lines or more
C13_Witness ==
    /\ lay.called = "get_current_line"
    /\ Len(lay.lines) >= 2
    /\ lay.index = SumCodePoints(lay.lines) + Len(lay.lines)
    /\ lay.line = -1

\* C14: for all indices i <= j for which a line is found,
\* get_current_line(i) <= get_current_line(j).
C14_CurrentLineIsMonotonic ==
    (lay.called = "get_current_line" /\ lay.line # -1) =>
        \A j \in lay.index..(Len(lay.text) + 2) :
            get_current_line(lay.lines, j) # -1 =>
                lay.line <= get_current_line(lay.lines, j)

\* An index on the second of three lines, with indices found before and after
C14_Witness ==
    /\ lay.called = "get_current_line"
    /\ Len(lay.lines) = 3
    /\ lay.line = 1
    /\ get_current_line(lay.lines, lay.index - 1) = 0
    /\ get_current_line(lay.lines, lay.index + 2) = 2

\* C15: on a string of one-, two-, three- and four-byte characters in any
\* mix, get_utf8_char_vector returns exactly one code point per character,
\* in the order of the characters: the k-th code point is the one the k-th
\* character gives alone.
C15_OneCodePointPerCharacter ==
    lay.called = "get_utf8_char_vector" =>
        /\ Len(lay.converted) = Len(lay.chars)
        /\ \A k \in 1..Len(lay.chars) :
              get_utf8_char_vector(lay.chars[k]) = <<lay.converted[k]>>

\* A string with a character of each byte length was decoded
C15_Witness ==
    /\ lay.called = "get_utf8_char_vector"
    /\ {Len(lay.chars[k]) : k \in 1..Len(lay.chars)} = 1..4
    /\ Len(lay.converted) = 4

\* The string holds ASCII bytes only
IsAscii(t) == \A k \in 1..Len(t) : t[k] < 128

\* C16: an ASCII-only string of length N gives N code points, the i-th equal
\* to the i-th byte value.
C16_AsciiIsBytewise ==
    (lay.called = "get_utf8_char_vector" /\ IsAscii(lay.text)) =>
        /\ Len(lay.converted) = Len(lay.text)
        /\ \A i \in 1..Len(lay.text) : lay.converted[i] = <<0, 0, 0, lay.text[i]>>

\* An ASCII string of two different bytes was decoded
C16_Witness ==
    /\ lay.called = "get_utf8_char_vector"
    /\ IsAscii(lay.text)
    /\ Len(lay.converted) = MaxChars
    /\ lay.text[1] # lay.text[2]

\* The positions, from 0, of the decoded atlas u whose code point is c
PositionsIn(c, u) == {i \in 0..(Len(u) - 1) : u[i + 1] = c}

\* The same for the atlas string
PositionsOf(c, atlas) ==
    \* the atlas is decoded once
    CHOOSE ps \in {PositionsIn(c, u) : u \in {get_utf8_char_vector(atlas)}} : TRUE

\* C17: get_char_index(c, atlas) is the smallest position whose decoded atlas
\* code point equals c, and -1 exactly when no position has it.
C17_CharIndexIsFirstMatch ==
    lay.called = "get_char_index" =>
        \A ps \in {PositionsOf(lay.character, lay.text)} :
            IF ps = {}
            THEN lay.index = -1
            ELSE lay.index \in ps /\ \A i \in ps : lay.index <= i

\* The code point asked for is in the atlas twice, not at its start
C17_Witness ==
    /\ lay.called = "get_char_index"
    /\ Cardinality(PositionsOf(lay.character, lay.text)) = 2
    /\ lay.index = 1

\* The line get_current_line maps the code point at type_counter to
MappedLine ==
    get_current_line(get_all_lines(text, FontSize, HOffset, rect_w), stats.type_counter)

\* What a reveal draws: the glyph of the code point, nothing for a space
OneGlyph(c, x, y) == IF c = <<0, 0, 0, Space>> THEN <<>> ELSE <<Glyph(c, x, y)>>

\* C18: a tick past the timer check whose code point is a space or has a
\* glyph draws exactly that code point, at x = the cursor and
\* y = rect.y + line * (size * v_offset / 100) for its mapped line, then
\* adds size - h_offset * size / 100 to current_x, zeroes the timer and
\* increases type_counter by one.
C18_RevealDrawsOneCodePoint ==
    [][(/\ TickStep
        /\ PastTimerCheck
        /\ (HasGlyph(NextCodePoint) \/ NextCodePoint = <<0, 0, 0, Space>>)) =>
          /\ pc' = "frame"
          /\ ev'.path = "reveal"
          /\ ev'.composited =
                OneGlyph(NextCodePoint, CursorAtDraw,
                         RectY + MappedLine * ((FontSize * VOffset) \div 100))
          /\ stats'.current_x = CursorAtDraw + (FontSize - (HOffset * FontSize) \div 100)
          /\ stats'.timer = 0
          /\ stats'.type_counter = stats.type_counter + 1]_vars

\* A glyph was revealed on the second line, after a cursor reset
C18_Witness ==
    /\ Ticked
    /\ pc = "frame"
    /\ ev.path = "reveal"
    /\ ev.reset
    /\ ev.line = 1
    /\ Len(ev.composited) = 1
    /\ ev.composited[1].y = RectY + (FontSize * VOffset) \div 100
    /\ stats.timer = 0

\* C19: a call of draw_text, draw_utf8_text or draw_text_multiline with a
\* target whose finished is false returns with target->finished true, for
\* every text.
C19_StaticCallFinishes ==
    [][(/\ pc = "static"
        /\ ~target.finished
        /\ ev'.op \in {"draw_text", "draw_utf8_text", "draw_text_multiline"}
        /\ ev'.hasTarget) =>
          target'.finished]_vars

\* The number of characters of a byte string
Chars(s) == Len(get_utf8_char_vector(s))

\* The greedy rule with lengths in characters, for one token
PlaceByChars(result, word, advance, max_length) ==
    IF result = <<>> THEN <<word>>
    ELSE IF (Chars(result[Len(result)]) + Chars(word) + 1) * advance <= max_length
         THEN [result EXCEPT ![Len(result)] = @ \o <<Space>> \o word]
         ELSE Append(result, word)

RECURSIVE GreedyByChars(_, _, _, _)
GreedyByChars(result, words, advance, max_length) ==
    IF words = <<>> THEN result
    ELSE GreedyByChars(PlaceByChars(result, Head(words), advance, max_length),
                       Tail(words), advance, max_length)

\* C20: split_text_by_size appends a token after the first to the current
\* line exactly when (current_line_length + token_length + 1) *
\* effective_advance <= max_length, both lengths counted in characters, and
\* starts a new line with it otherwise.
C20_GreedyInCharacters ==
    lay.called = "split_text_by_size" =>
        lay.lines = GreedyByChars(<<>>, Words(lay.text), EffectiveAdvance,
                                  lay.max_length)

\* The glyphs a cursor starting at x places for the code points u: a space
\* and a code point with a glyph advance the cursor by
\* size - h_offset*size/100, a code point without glyph does not
RECURSIVE GlyphsFrom(_, _, _)
GlyphsFrom(u, x, y) ==
    IF u = <<>> THEN <<>>
    ELSE IF Head(u) = <<0, 0, 0, Space>>
         THEN GlyphsFrom(Tail(u), x + (FontSize - (HOffset * FontSize) \div 100), y)
    ELSE IF HasGlyph(Head(u))
         THEN <<Glyph(Head(u), x, y)>>
              \o GlyphsFrom(Tail(u), x + (FontSize - (HOffset * FontSize) \div 100), y)
    ELSE GlyphsFrom(Tail(u), x, y)

\* The last call was a draw_text that went through the text
DrewText == ev.op = "draw_text" /\ ~(ev.hasTarget /\ ev.was_finished)

\* C21: draw_text places glyphs by a cursor that starts at x: a space
\* advances it and draws nothing, a code point with a glyph is drawn at the
\* cursor and advances it, a code point without glyph draws nothing and
\* leaves it; with a target the cached surface is copied to the output once
\* for every code point.
C21_DrawTextCursor ==
    DrewText =>
        IF ev.hasTarget
        THEN /\ ev.composited = GlyphsFrom(get_utf8_char_vector(text), RectX, RectY)
             /\ ev.direct = <<>>
             /\ ev.copies = Len(get_utf8_char_vector(text))
        ELSE /\ ev.direct = GlyphsFrom(get_utf8_char_vector(text), RectX, RectY)
             /\ ev.composited = <<>>
             /\ ev.copies = 0

\* A text of a code point without glyph, a space and a glyph was drawn
\* onto a target
C21_Witness ==
    /\ DrewText
    /\ ev.hasTarget
    /\ ev.copies = 3
    /\ text[2] = Space
    /\ Len(ev.composited) = 1
    /\ ev.composited[1].x = RectX + (FontSize - (HOffset * FontSize) \div 100)

\* C22: no draw_typewriter tick decreases stats.type_counter, each tick
\* increases it by at most one, and a tick taken while Revealing
\* (type_counter below the number of decoded code points) leaves it within
\* 0 .. that number.
C22_TypeCounterIsMonotonic ==
    [][TickStep =>
          /\ stats'.type_counter \in {stats.type_counter, stats.type_counter + 1}
          /\ stats.type_counter < CodePoints(text) =>
                stats'.type_counter \in 0..CodePoints(text)]_vars

\* The counter went from 0 to the number of code points, past a skipped one,
\* and a further tick left it there
C22_Witness ==
    /\ Ticked
    /\ ev.path = "complete"
    /\ CodePoints(text) = MaxLen
    /\ stats.type_counter = MaxLen
    /\ \E k \in 1..MaxLen : ~HasGlyph(Revealed(text)[k]) /\ Revealed(text)[k] # <<0, 0, 0, Space>>

\* C23 as stated: the decoded sequence is populated on the first tick and no
\* later tick changes it, whatever text later ticks receive.
C23_DecodedOnFirstTickOnly ==
    [][(TickStep /\ ticks >= 1) => stats'.utf8_text = stats.utf8_text]_vars

\* C23 amended: a tick that finds the decoded sequence non-empty leaves it
\* unchanged, whatever text it receives; a tick that finds it empty leaves
\* it as the code points of the text it receives.
C23_DecodedWhileEmptyOnly ==
    [][TickStep =>
          IF stats.utf8_text # <<>>
          THEN stats'.utf8_text = stats.utf8_text
          ELSE pc' = "frame" => stats'.utf8_text = Revealed(text)]_vars

\* A tick received a text other than the one decoded and kept the sequence
C23_Witness ==
    /\ Ticked
    /\ pc = "frame"
    /\ ticks >= 2
    /\ stats.utf8_text # <<>>
    /\ Revealed(text) # <<>>
    /\ Revealed(text) # stats.utf8_text

\* C24: whenever draw_typewriter reads stats.utf8_text[stats.type_counter]
\* (a tick that gets to the skip test), the index is within
\* 0 .. size of the decoded sequence - 1, for every text.
C24_ReadsInRange ==
    /\ pc # "fault"
    /\ (Ticked /\ ev.path \in {"skip", "reveal"}) =>
          ev.pre_counter \in 0..(Len(stats.utf8_text) - 1)

\* C25: a TypeStats constructed with a per-character duration d keeps it:
\* a tick takes a code point (reveals or skips it) only when the timer
\* exceeds d, also for d below one second.
C25_ConstructedDurationIsKept ==
    [][(/\ TickStep
        /\ lay.called = "TypeStats"
        /\ stats.type_counter < CodePoints(text)
        /\ ev'.path \in {"reveal", "skip"}) =>
          stats.timer > lay._d]_vars

\* The glyphs of the composite of text t drawn at (RectX, RectY)
CompositeOf(t) ==
    {GlyphsFrom(get_utf8_char_vector(t), RectX, RectY)[k] :
        k \in 1..Len(GlyphsFrom(get_utf8_char_vector(t), RectX, RectY))}

\* C26: when a cache that was drawn to has its finished flag cleared and
\* draw_text is called on it, with whatever text, the cached surface holds
\* afterwards the composite of the text of that call only.
C26_RedrawReplacesComposite ==
    [][(/\ pc = "static"
        /\ target.texture
        /\ ~target.finished
        /\ target'.finished
        /\ ev'.op = "draw_text") =>
          surface' = CompositeOf(text)]_vars

\* C27: for a non-empty text, with draw_typewriter ticked forever and a
\* positive delta added to the timer after each tick, type_counter eventually
\* is at or past the number of decoded code points and stays there.
C27_EventuallyComplete ==
    (text # <<>>) => <>[](stats.type_counter >= CodePoints(text))

\* A text of MaxLen code points, one of them skipped, was completed with a
\* duration of 0.1 s
C27_Witness ==
    /\ Ticked
    /\ ev.path = "complete"
    /\ stats.duration = 2
    /\ CodePoints(text) = MaxLen
    /\ stats.type_counter = MaxLen
    /\ \E k \in 1..MaxLen : ~HasGlyph(Revealed(text)[k]) /\ Revealed(text)[k] # <<0, 0, 0, Space>>

\* C28: two different valid UTF-8 characters never decode to the same
\* 32-bit code point.
C28_DecoderIsInjective ==
    (/\ lay.called = "get_utf8_char_vector"
     /\ Len(lay.chars) = 2
     /\ Len(lay.converted) = 2
     /\ lay.chars[1] # lay.chars[2]) =>
        lay.converted[1] # lay.converted[2]

=============================================================================
